---------------------------- MODULE Spec2Model ----------------------------
(***************************************************************************)
(* A model of gallica.py: the resolution of the ARK identifier, the        *)
(* manifest resolver, the job builder, the thread pool of downloads with   *)
(* backoff, the PDF assembly and the guarded cleanup of the work folder.   *)
(*                                                                         *)
(* Strings are sequences of one-character strings, so that the regular     *)
(* expression of ark_from_url and str.strip() are computed character by    *)
(* character.  Durations are in milliseconds, sizes in bytes.              *)
(***************************************************************************)
EXTENDS Integers, Sequences, FiniteSets, TLC

VARIABLES
    arg,        \* the argument of the pure function under check (ark_from_url, safe_rmtree)
    ret,        \* << >> before the call, <<result>> after it
    pc,         \* where the main thread stands in main()
    err,        \* the exception that ended main(), None while there is none
    gm,         \* the frame of get_manifest: position, round, requests issued, outcome
    canvases,   \* len(canvases) of the manifest the server holds for the document
    workers,    \* args.workers
    files,      \* img_dir: page number -> the file page_<i>.jpg, NoFile when absent
    parts,      \* img_dir: page number -> the state of page_<i>.jpg.part
    jobs,       \* the list jobs of main(): (url, out_path) pairs
    js,         \* per job, the frame of its download_with_backoff call
    wjob,       \* per worker thread, the job it runs, 0 when idle
    tls,        \* per worker thread, the number of sessions it made for _tls.session
    run,        \* how many times parallel_download was entered on this workspace
    images,     \* the list handed to assemble_pdf, << >> before
    pdf,        \* the file out_pdf
    workdir     \* whether the work folder still exists

vars == <<arg, ret, pc, err, gm, canvases, workers, files, parts, jobs, js, wjob, tls,
          run, images, pdf, workdir>>

None == "None"

-----------------------------------------------------------------------------
(* ark_from_url, gallica.py lines 44-55                                    *)

\* The literal text of ARK_RE before its group: /ark:/12148/
ArkPrefix == <<"/", "a", "r", "k", ":", "/", "1", "2", "1", "4", "8", "/">>

\* The same text as a user may type it in capitals.
ArkPrefixUpper == <<"/", "A", "R", "K", ":", "/", "1", "2", "1", "4", "8", "/">>

\* The characters the group [^/?#]+ excludes.
Boundary == {"/", "?", "#"}

\* The characters str.strip() removes.
Whitespace == {" "}

\* re.IGNORECASE compares letters without their case.
Lower(c) ==
    CASE c = "A" -> "a"
      [] c = "R" -> "r"
      [] c = "K" -> "k"
      [] OTHER -> c

\* The literal part of ARK_RE matches s at position i, letters compared without case.
PrefixAt(s, i) ==
    /\ i + Len(ArkPrefix) - 1 <= Len(s)
    /\ \A k \in 1..Len(ArkPrefix) : Lower(s[i + k - 1]) = ArkPrefix[k]

\* ARK_RE matches s at position i: the literal part, then at least one character of the group.
ArkMatchAt(s, i) ==
    /\ PrefixAt(s, i)
    /\ i + Len(ArkPrefix) <= Len(s)
    /\ s[i + Len(ArkPrefix)] \notin Boundary

\* ARK_RE.search: the leftmost position where the expression matches, 0 when there is none.
RECURSIVE ArkSearchFrom(_, _)
ArkSearchFrom(s, i) ==
    IF i > Len(s) THEN 0
    ELSE IF ArkMatchAt(s, i) THEN i
    ELSE ArkSearchFrom(s, i + 1)

ArkSearch(s) == ArkSearchFrom(s, 1)

\* The greedy group ([^/?#]+) read from position i: every character up to the next boundary.
RECURSIVE GroupFrom(_, _)
GroupFrom(s, i) ==
    IF i > Len(s) \/ s[i] \in Boundary THEN << >>
    ELSE <<s[i]>> \o GroupFrom(s, i + 1)

\* str.lstrip() and str.rstrip() on whitespace.
RECURSIVE LStrip(_)
LStrip(s) ==
    IF s # << >> /\ Head(s) \in Whitespace THEN LStrip(Tail(s)) ELSE s

RECURSIVE RStrip(_)
RStrip(s) ==
    IF s # << >> /\ s[Len(s)] \in Whitespace THEN RStrip(SubSeq(s, 1, Len(s) - 1)) ELSE s

\* An ARK_RE that forgets re.IGNORECASE would give this result.
ark_from_url_case_sensitive(url) ==
    LET hits == {i \in 1..Len(url) :
                    /\ i + Len(ArkPrefix) <= Len(url)
                    /\ SubSeq(url, i, i + Len(ArkPrefix) - 1) = ArkPrefix
                    /\ url[i + Len(ArkPrefix)] \notin Boundary}
    IN  IF hits = {} THEN [err |-> "ValueError", val |-> << >>]
        ELSE LET m == CHOOSE i \in hits : \A k \in hits : i <= k
             IN  [err |-> None, val |-> LStrip(RStrip(GroupFrom(url, m + Len(ArkPrefix))))]

\* ark_from_url: the stripped group of the first match, ValueError when nothing matches.
ark_from_url(url) ==
    LET m == ArkSearch(url)
    IN  IF m = 0 THEN [err |-> "ValueError", val |-> << >>]
        ELSE [err |-> None, val |-> LStrip(RStrip(GroupFrom(url, m + Len(ArkPrefix))))]

\* The pieces the locator strings of the check are built from.
Chunks == {ArkPrefix, ArkPrefixUpper, <<"/", "a", "r", "k", ":">>,
           <<"/">>, <<"?">>, <<"#">>, <<"x">>, <<" ">>}

\* How many pieces a locator string has at most.
MaxChunks == 3

RECURSIVE Locators(_)
Locators(n) ==
    IF n = 0 THEN {<< >>}
    ELSE LET shorter == Locators(n - 1)
         IN  shorter \cup {c \o s : c \in Chunks, s \in shorter}

-----------------------------------------------------------------------------
(* HTTP helpers, gallica.py lines 77-99                                    *)

\* The bounds of the check: pages of the document, worker threads.
MaxCanvases == 2
MaxWorkers == 2

\* What a GET can bring: status 0 stands for a transport error (no response at all),
\* json tells whether the body of a 2xx/3xx response decodes as JSON.
Responses ==
    {[status |-> 200, json |-> TRUE], [status |-> 200, json |-> FALSE]}
        \cup {[status |-> c, json |-> FALSE] : c \in {0, 304, 403, 404, 429, 500, 503}}

\* fetch(session, url, expect_json=True): the exception it raises, None when it returns.
fetch(resp) ==
    IF resp.status = 0 THEN "ConnectionError"
    ELSE IF resp.status >= 400 THEN "HTTPError"
    ELSE IF ~resp.json THEN "JSONDecodeError"
    ELSE None

\* warmup(session, ark): u1ok and u2ok tell whether the GET of each viewer URL came back
\* (with any status). The requests it issues and whether it raises the last error.
warmup(u1ok, u2ok) ==
    [reqs   |-> IF u1ok THEN <<"viewer">> ELSE <<"viewer", "viewer">>,
     raised |-> ~u1ok /\ ~u2ok]

-----------------------------------------------------------------------------
(* IIIF manifest, gallica.py lines 105-174                                 *)

\* What the HTML of a viewer page holds: an absolute manifest URL, only a relative one, none.
Htmls == {"absolute", "relative", "none"}

\* extract_manifest_from_html: the absolute URL first, else the relative one with the
\* domain of the archive before it, else None.
extract_manifest_from_html(html) ==
    IF html = "absolute" THEN "https://gallica.bnf.fr/iiif/.../manifest.json"
    ELSE IF html = "relative" THEN "https://gallica.bnf.fr" \o "/iiif/.../manifest.json"
    ELSE None

\* A request get_manifest issued: the strategy, the round of its loop, what was asked for
\* (the manifest URL, a viewer page, the manifest URL found in the page).
Req(strategy, round, what) == [s |-> strategy, n |-> round, what |-> what]

\* The frame of get_manifest before the call: where it stands, the round of the loop, the
\* requests issued, the status of the direct fetch, the strategy that found the manifest.
GmIdle == [pos |-> "idle", attempt |-> 0, log |-> << >>, direct |-> -1, via |-> 0]

\* get_manifest raises e: main() does not catch it.
GmRaise(e, log, direct) ==
    /\ gm' = [gm EXCEPT !.pos = "raised", !.log = log, !.direct = direct]
    /\ pc' = "fatal"
    /\ err' = e

\* get_manifest returns the manifest, found by strategy n.
GmReturn(n, log, direct) ==
    /\ gm' = [gm EXCEPT !.pos = "returned", !.log = log, !.direct = direct, !.via = n]
    /\ pc' = "iter_canvases"
    /\ err' = err

\* A strategy 1 that falls back on every HTTP error status, not on 403 alone.
FallsBackAnyStatus(resp) == fetch(resp) = "HTTPError"

\* Lines 126-130: the except clause of strategy 1 lets the resolver go on.
FallsBack(resp) == fetch(resp) = "HTTPError" /\ resp.status = 403

\* Strategy 1, lines 122-130: the direct fetch.
ManifestDirect ==
    /\ pc = "get_manifest"
    /\ gm.pos = "direct"
    /\ \E resp \in Responses :
          LET log == Append(gm.log, Req(1, 1, "manifest")) IN
          IF fetch(resp) = None THEN GmReturn(1, log, resp.status)
          ELSE IF FallsBack(resp)
          THEN /\ gm' = [gm EXCEPT !.pos = "round", !.attempt = 1, !.log = log,
                                   !.direct = resp.status]
               /\ UNCHANGED <<pc, err>>
          ELSE GmRaise(fetch(resp), log, resp.status)
    /\ UNCHANGED <<arg, ret, canvases, workers, files, parts, jobs, js, wjob, tls, run,
                   images, pdf, workdir>>

\* Strategy 2, lines 133-140: one round of the loop, the sleep, the warm-up and, when the
\* warm-up did not raise, the manifest fetch; any exception ends the round.
ManifestRound ==
    /\ pc = "get_manifest"
    /\ gm.pos = "round"
    /\ \E u1ok, u2ok \in BOOLEAN, resp \in Responses :
          LET w == warmup(u1ok, u2ok)
              seen == gm.log \o [k \in 1..Len(w.reqs) |-> Req(2, gm.attempt, w.reqs[k])]
              log == IF w.raised THEN seen
                     ELSE Append(seen, Req(2, gm.attempt, "manifest"))
          IN  IF ~w.raised /\ fetch(resp) = None THEN GmReturn(2, log, gm.direct)
              ELSE /\ gm' = IF gm.attempt < 3
                            THEN [gm EXCEPT !.attempt = gm.attempt + 1, !.log = log]
                            ELSE [gm EXCEPT !.pos = "scrape", !.attempt = 1, !.log = log]
                   /\ UNCHANGED <<pc, err>>
    /\ UNCHANGED <<arg, ret, canvases, workers, files, parts, jobs, js, wjob, tls, run,
                   images, pdf, workdir>>

\* Strategy 3, lines 143-161: one viewer URL of the loop; after the second one the
\* RuntimeError of line 158.
ManifestScrape ==
    /\ pc = "get_manifest"
    /\ gm.pos = "scrape"
    /\ \E page \in Responses, html \in Htmls, resp \in Responses :
          LET pageOk == page.status # 0 /\ page.status < 400
              alt == IF pageOk THEN extract_manifest_from_html(html) ELSE None
              seen == Append(gm.log, Req(3, gm.attempt, "viewer"))
              log == IF alt # None THEN Append(seen, Req(3, gm.attempt, "alt")) ELSE seen
          IN  IF alt # None /\ fetch(resp) = None THEN GmReturn(3, log, gm.direct)
              ELSE IF gm.attempt < 2
              THEN /\ gm' = [gm EXCEPT !.attempt = gm.attempt + 1, !.log = log]
                   /\ UNCHANGED <<pc, err>>
              ELSE GmRaise("RuntimeError: manifest", log, gm.direct)
    /\ UNCHANGED <<arg, ret, canvases, workers, files, parts, jobs, js, wjob, tls, run,
                   images, pdf, workdir>>

\* dict.get on a key: None when the key is absent, else the value, which can be "".
Truthy(v) == v # None /\ v # ""

\* a or b in Python: a when it is truthy, else b, whatever b is.
Or(a, b) == IF Truthy(a) THEN a ELSE b

\* The canvases of the check. images: the key is absent, its list is empty, its first
\* entry has the dicts resource and service ("ok"), or one of the three is not a dict
\* ("mismatch", for instance a service given as a list). a_at and a_id are the values
\* of '@id' and 'id' in that service. items: absent, empty, the first annotation has a
\* body ("ok"), or the path to it breaks ("mismatch"). svc is the service of the body:
\* absent, a dict, an empty list, a list whose first entry is a dict ("list") or is not
\* ("badentry"); b_id and b_at are the values of 'id' and '@id' in that entry.
Ids(kind) == {None, "", kind}

Canvases ==
    [images : {"absent", "empty", "ok", "mismatch"},
     a_at   : Ids("A@id"),
     a_id   : Ids("Aid"),
     items  : {"absent", "empty", "ok", "mismatch"},
     svc    : {"absent", "dict", "emptylist", "list", "badentry"},
     b_id   : Ids("Bid"),
     b_at   : Ids("B@id")]

SvcReturn(v) == [kind |-> "return", val |-> v, err |-> None]
SvcRaise(e) == [kind |-> "raise", val |-> None, err |-> e]

SvcFallThrough == [kind |-> "fall", val |-> None, err |-> None]

\* Lines 188-198, the v3 path: what it returns, or that it falls through to line 200.
\* Every exception on the way is caught by the except of line 197.
schema_b(c) ==
    IF c.items \in {"absent", "empty", "mismatch"} THEN SvcFallThrough
    ELSE IF c.svc = "list" THEN SvcReturn(Or(c.b_id, c.b_at))
    ELSE SvcFallThrough

\* canvas_image_service_id(canvas), lines 177-200. The v2 path is outside any try: an
\* entry that is not a dict raises AttributeError out of the function.
canvas_image_service_id(c) ==
    IF c.images = "mismatch" THEN SvcRaise("AttributeError")
    ELSE IF c.images = "ok" /\ Truthy(Or(c.a_at, c.a_id)) THEN SvcReturn(Or(c.a_at, c.a_id))
    ELSE IF schema_b(c).kind = "return" THEN schema_b(c)
    ELSE SvcRaise("RuntimeError: no image service")

\* iiif_jpg_url(service_id, max_width), lines 203-205: rstrip is a method of str, None has
\* none.
iiif_jpg_url(sid) ==
    IF sid = None THEN SvcRaise("AttributeError")
    ELSE SvcReturn(sid \o "/full/max_width,/0/default.jpg")

-----------------------------------------------------------------------------
(* The work folder                                                         *)

\* The size a page file must exceed to count as already downloaded (lines 221 and 408).
MinSize == 50000

\* The sizes of the check: the threshold itself and the first size above it.
Sizes == {MinSize, MinSize + 1}

\* out_pdf before anything wrote it.
NoPdf == [state |-> "absent", pages |-> << >>]

NoFile == [exists |-> FALSE, size |-> 0, canvas |-> 0, fresh |-> FALSE]

\* The file page_<i>.jpg left by an earlier run on the same document: the image of canvas
\* i, possibly cut short.
PriorFile(i, size) == [exists |-> TRUE, size |-> size, canvas |-> i, fresh |-> FALSE]

\* The file a download of this run writes: the body served for the URL of canvas c.
FetchedFile(c, size) == [exists |-> TRUE, size |-> size, canvas |-> c, fresh |-> TRUE]

\* A skip test with a zero too many in the threshold.
AlreadyOkWrongThreshold(f) == f.exists /\ f.size > 10 * MinSize

\* out.exists() and out.stat().st_size > 50_000, lines 221 and 408.
AlreadyOk(f) == f.exists /\ f.size > MinSize

\* The work folders an earlier run on a document of n canvases can have left.
Workspaces(n) ==
    {f \in [1..n -> {NoFile} \cup {PriorFile(i, sz) : i \in 1..n, sz \in Sizes}] :
        \A i \in 1..n : f[i].exists => f[i].canvas = i}

-----------------------------------------------------------------------------
(* main() up to the pool, gallica.py lines 383-417                         *)

\* The main variables while a function is checked on its own.
Parked(at) ==
    /\ pc = at
    /\ err = None
    /\ gm = GmIdle
    /\ canvases = 0
    /\ workers = 1
    /\ files = << >>
    /\ parts = << >>
    /\ jobs = << >>
    /\ js = << >>
    /\ wjob = [w \in 1..1 |-> 0]
    /\ tls = [w \in 1..1 |-> 0]
    /\ run = 0
    /\ images = << >>
    /\ pdf = NoPdf
    /\ workdir = TRUE

\* The state of main() at line 385: arguments parsed, img_dir created.
Init ==
    /\ arg = << >>
    /\ ret = << >>
    /\ pc = "warmup"
    /\ err = None
    /\ gm = GmIdle
    /\ canvases \in 0..MaxCanvases
    /\ workers \in 1..MaxWorkers
    /\ files \in Workspaces(canvases)
    /\ parts = [i \in 1..canvases |-> "absent"]
    /\ jobs = << >>
    /\ js = << >>
    /\ wjob = [w \in 1..workers |-> 0]
    /\ tls = [w \in 1..workers |-> 0]
    /\ run = 0
    /\ images = << >>
    /\ pdf = NoPdf
    /\ workdir = TRUE

\* Lines 387-391: the warm-up of the master session; its failure is only printed.
MainWarmup ==
    /\ pc = "warmup"
    /\ \E u1ok, u2ok \in BOOLEAN :
          /\ warmup(u1ok, u2ok).raised \in BOOLEAN
          /\ pc' = "get_manifest"
          /\ gm' = [GmIdle EXCEPT !.pos = "direct"]
    /\ UNCHANGED <<arg, ret, err, canvases, workers, files, parts, jobs, js, wjob, tls, run,
                   images, pdf, workdir>>

\* Lines 396-400: canvases = list(iter_canvases(manifest)); no canvas is fatal. The frame
\* of get_manifest is gone.
IterCanvases ==
    /\ pc = "iter_canvases"
    /\ gm' = GmIdle
    /\ IF canvases = 0
       THEN pc' = "fatal" /\ err' = "RuntimeError: no page"
       ELSE pc' = "build_jobs" /\ err' = err
    /\ UNCHANGED <<arg, ret, canvases, workers, files, parts, jobs, js, wjob, tls, run,
                   images, pdf, workdir>>

\* A job list that pairs page i with the image of the k-th canvas, k the position of the
\* job in the list and not the number of the canvas.
JobFetchingByPosition(i, k) == [url |-> k, out |-> i]

\* Lines 407-412: the job of canvas i, the k-th of the list: the URL of the image of canvas
\* i, written to page_<i>.jpg.
Job(i, k) == [url |-> i, out |-> i]

\* Lines 405-412: the jobs of canvases i..n after the list so far, the cached pages left out.
RECURSIVE BuildFrom(_, _, _)
BuildFrom(i, n, sofar) ==
    IF i > n THEN sofar
    ELSE IF AlreadyOk(files[i]) THEN BuildFrom(i + 1, n, sofar)
    ELSE BuildFrom(i + 1, n, Append(sofar, Job(i, Len(sofar) + 1)))

\* The jobs of the given pages among i..n, in the order of the canvases.
RECURSIVE BuildFromSet(_, _, _)
BuildFromSet(i, n, pages) ==
    IF i > n THEN << >>
    ELSE IF i \in pages THEN <<Job(i, 1)>> \o BuildFromSet(i + 1, n, pages)
    ELSE BuildFromSet(i + 1, n, pages)

\* One canvas for each way lines 410-411 can fail: no service in it, a v2 entry that is
\* not a dict, a v3 service entry without identifier.
SvcFailures ==
    {c \in Canvases :
        /\ c.a_at = None /\ c.a_id = None /\ c.b_id = None /\ c.b_at = None
        /\ \/ c.images = "absent" /\ c.items = "absent" /\ c.svc = "absent"
           \/ c.images = "mismatch" /\ c.items = "absent" /\ c.svc = "absent"
           \/ c.images = "absent" /\ c.items = "ok" /\ c.svc = "list"}

\* Lines 404-414: the loop that builds the jobs. served is the set of canvases that carry
\* an image service; canvas_image_service_id raises on the first needed canvas without one.
BuildJobs ==
    /\ pc = "build_jobs"
    /\ \E served \in SUBSET (1..canvases), c \in SvcFailures :
          LET needed == {i \in 1..canvases : ~AlreadyOk(files[i])}
              built == BuildFrom(1, canvases, << >>)
          IN  IF needed \subseteq served
              THEN /\ jobs' = built
                   /\ pc' = IF built # << >> THEN "parallel_download" ELSE "check_missing"
                   /\ err' = err
              ELSE /\ jobs' = jobs
                   /\ pc' = "fatal"
                   /\ err' = IF canvas_image_service_id(c).kind = "raise"
                             THEN canvas_image_service_id(c).err
                             ELSE iiif_jpg_url(canvas_image_service_id(c).val).err
    /\ UNCHANGED <<arg, ret, gm, canvases, workers, files, parts, js, wjob, tls, run,
                   images, pdf, workdir>>

-----------------------------------------------------------------------------
(* Download with backoff, gallica.py lines 211-265                         *)

MAX_TRIES == 8
BASE_BACKOFF == 600
MAX_BACKOFF == 12000

\* random.uniform(0, 0.35) in milliseconds: the two ends of the range.
MaxJitter == 350
Jitters == {0, MaxJitter - 1}

Min(a, b) == IF a < b THEN a ELSE b

\* A backoff that forgets the cap.
BackoffWaitUncapped(attempt, jitter) == BASE_BACKOFF * (2 ^ (attempt - 1)) + jitter

\* Lines 242-243: the sleep after the attempt that got 403, 429 or 503.
BackoffWait(attempt, jitter) ==
    Min(BASE_BACKOFF * (2 ^ (attempt - 1)) + jitter, MAX_BACKOFF)

\* The statuses an image request can bring, 0 for a transport error.
ImageStatuses == {0, 200, 304, 403, 404, 429, 500, 503}

\* Line 241.
Retryable == {403, 429, 503}

\* The frame of a download_with_backoff call: st is queued (submitted, not started), get
\* (about to issue the request of this attempt), sleep (in the backoff sleep), stream
\* (writing the body to the .part file), ok, skipped or failed. reqs counts the requests
\* issued so far, last is the status of the response in hand (0 when there is none or
\* when it was answered by a sleep), wait the sleep in progress, err the exception the
\* call raised.
Queued == [st |-> "queued", attempt |-> 0, reqs |-> 0, last |-> 0, wait |-> 0, err |-> None]

\* The call is over: the future holds the outcome.
Over(frame, st, e) == [frame EXCEPT !.st = st, !.wait = 0, !.err = e]

Resolved(j) == js[j].st \in {"ok", "skipped", "failed"}

\* A wait that ends with the first future that is done.
AnyResolved == \E j \in 1..Len(js) : Resolved(j)

\* Lines 257-265: as_completed has yielded every future, and the __exit__ of the executor,
\* shutdown(wait=True), has joined the threads: every work item is over.
AllResolved == \A j \in 1..Len(js) : Resolved(j)

InProgress(j) == js[j].st \in {"get", "sleep", "stream"}

\* The executor runs work items while main() is in the with block, also while its
\* __exit__ waits with an exception pending.
PoolOpen == pc \in {"as_completed", "shutdown"}

\* Lines 251-261: parallel_download submits every job to a new executor.
StartPool ==
    /\ pc = "parallel_download"
    /\ js' = [j \in 1..Len(jobs) |-> Queued]
    /\ wjob' = [w \in 1..workers |-> 0]
    /\ tls' = [w \in 1..workers |-> 0]
    /\ run' = run + 1
    /\ pc' = "as_completed"
    /\ UNCHANGED <<arg, ret, err, gm, canvases, workers, files, parts, jobs, images, pdf,
                   workdir>>

\* The job fails with exception e: the future keeps it, the worker takes the next item.
JobFails(w, j, e, frame) ==
    /\ js' = [js EXCEPT ![j] = Over(frame, "failed", e)]
    /\ wjob' = [wjob EXCEPT ![w] = 0]

\* The for loop of line 227 goes on to the next attempt, or ends in the error of line 248.
NextAttempt(w, j, frame) ==
    IF frame.attempt < MAX_TRIES
    THEN /\ js' = [js EXCEPT ![j] = [frame EXCEPT !.st = "get",
                                                  !.attempt = frame.attempt + 1]]
         /\ wjob' = wjob
    ELSE JobFails(w, j, "RuntimeError: attempts", frame)

\* A thread_session that makes a new session at every call.
thread_session_per_call(made) == made + 1

\* Lines 211-216: made is the number of sessions the thread has made so far. The session
\* is made, and seeded with the cookies, when _tls has none; else the one there is used.
thread_session(made) == IF made = 0 THEN 1 ELSE made

\* A pool that starts a thread per work item, whatever max_workers says.
CanTakeUnbounded(w) == TRUE

\* Line 257, ThreadPoolExecutor(max_workers=workers): a thread runs one work item at a
\* time and takes the next one when it is idle.
CanTake(w) == wjob[w] = 0

\* An idle worker thread takes the first queued job and enters download_with_backoff,
\* lines 219-226: the skip test, then the session of the thread.
TakeJob(w) ==
    /\ PoolOpen
    /\ CanTake(w)
    /\ \E j \in 1..Len(js) :
          /\ js[j].st = "queued"
          /\ \A k \in 1..(j - 1) : js[k].st # "queued"
          /\ IF AlreadyOk(files[jobs[j].out])
             THEN /\ js' = [js EXCEPT ![j] = Over(@, "skipped", None)]
                  /\ UNCHANGED <<wjob, tls>>
             ELSE /\ js' = [js EXCEPT ![j] = [@ EXCEPT !.st = "get", !.attempt = 1]]
                  /\ wjob' = [wjob EXCEPT ![w] = j]
                  /\ tls' = [tls EXCEPT ![w] = thread_session(@)]
    /\ UNCHANGED <<arg, ret, pc, err, gm, canvases, workers, files, parts, jobs, run,
                   images, pdf, workdir>>

\* A download that opens the destination itself for writing, with no .part file.
OpenDestination(i) ==
    [files |-> [files EXCEPT ![i] = [exists |-> TRUE, size |-> 0, canvas |-> 0,
                                     fresh |-> TRUE]],
     parts |-> parts]

\* Lines 231-232: tmp is the sibling page_<i>.jpg.part of the destination, and
\* open(tmp, "wb") creates or empties it; the destination is not touched.
OpenTmp(i) ==
    [files |-> files, parts |-> [parts EXCEPT ![i] = "partial"]]

\* Lines 228-246: the request of one attempt and what its status leads to.
Request(w) ==
    /\ PoolOpen
    /\ wjob[w] # 0
    /\ js[wjob[w]].st = "get"
    /\ \E status \in ImageStatuses, jitter \in Jitters :
          LET j == wjob[w]
              frame == [js[j] EXCEPT !.reqs = @ + 1, !.last = status]
          IN  IF status = 0
              THEN JobFails(w, j, "ConnectionError", frame) /\ UNCHANGED <<files, parts>>
              ELSE IF status = 200
              THEN /\ js' = [js EXCEPT ![j] = [frame EXCEPT !.st = "stream"]]
                   /\ files' = OpenTmp(jobs[j].out).files
                   /\ parts' = OpenTmp(jobs[j].out).parts
                   /\ wjob' = wjob
              ELSE IF status \in Retryable
              THEN /\ js' = [js EXCEPT ![j] = [frame EXCEPT !.st = "sleep", !.last = 0,
                                  !.wait = BackoffWait(frame.attempt, jitter)]]
                   /\ UNCHANGED <<files, parts, wjob>>
              ELSE IF status >= 400
              THEN JobFails(w, j, "HTTPError", frame) /\ UNCHANGED <<files, parts>>
              ELSE NextAttempt(w, j, frame) /\ UNCHANGED <<files, parts>>
    /\ UNCHANGED <<arg, ret, pc, err, gm, canvases, workers, jobs, tls, run,
                   images, pdf, workdir>>

\* Lines 243-244 and 248: the sleep ends, the loop continues.
Wake(w) ==
    /\ PoolOpen
    /\ wjob[w] # 0
    /\ js[wjob[w]].st = "sleep"
    /\ NextAttempt(w, wjob[w], [js[wjob[w]] EXCEPT !.wait = 0])
    /\ UNCHANGED <<arg, ret, pc, err, gm, canvases, workers, files, parts, jobs, tls, run,
                   images, pdf, workdir>>

\* Lines 231-239: the body is streamed to the .part file and the file renamed, or the
\* transfer breaks and the exception leaves the function.
Stream(w) ==
    /\ PoolOpen
    /\ wjob[w] # 0
    /\ js[wjob[w]].st = "stream"
    /\ LET j == wjob[w] IN
          \/ \E size \in Sizes :
                /\ files' = [files EXCEPT ![jobs[j].out] = FetchedFile(jobs[j].url, size)]
                /\ parts' = [parts EXCEPT ![jobs[j].out] = "absent"]
                /\ js' = [js EXCEPT ![j] = Over(@, "ok", None)]
                /\ wjob' = [wjob EXCEPT ![w] = 0]
          \/ /\ JobFails(w, j, "ConnectionError", js[j])
             /\ UNCHANGED <<files, parts>>
    /\ UNCHANGED <<arg, ret, pc, err, gm, canvases, workers, jobs, tls, run, images, pdf,
                   workdir>>

\* Lines 262-265: as_completed only counts the futures; no result() is asked, so
\* parallel_download returns normally whatever the jobs raised.
PoolOutcome == "check_missing"

\* Lines 257-265: the with block ends when every future is done.
JoinPool ==
    /\ pc = "as_completed"
    /\ AllResolved
    /\ pc' = PoolOutcome
    /\ err' = IF PoolOutcome = "fatal" THEN "download" ELSE err
    /\ UNCHANGED <<arg, ret, gm, canvases, workers, files, parts, jobs, js, wjob, tls, run,
                   images, pdf, workdir>>

-----------------------------------------------------------------------------
(* PDF assembly, gallica.py lines 271-298 and 419-427                      *)

\* images = [page_0001.jpg .. page_<n>.jpg], line 421.
ImageList(n) == [i \in 1..n |-> i]

\* Lines 421-424: the list of images and the check that each file exists.
CheckMissing ==
    /\ pc = "check_missing"
    /\ IF \E i \in 1..canvases : ~files[ImageList(canvases)[i]].exists
       THEN /\ pc' = "fatal"
            /\ err' = "RuntimeError: missing images"
            /\ images' = images
       ELSE /\ pc' = "assemble_pdf"
            /\ err' = err
            /\ images' = ImageList(canvases)
    /\ UNCHANGED <<arg, ret, gm, canvases, workers, files, parts, jobs, js, wjob, tls, run,
                   pdf, workdir>>

\* The document made of the given images, in their order: per page the canvas it shows.
Document(imgs) ==
    [state |-> "complete", pages |-> [k \in 1..Len(imgs) |-> files[imgs[k]].canvas]]

\* What each strategy of assemble_pdf can meet.
PrimaryOutcomes == {"ok", "ImportError", "OpenError", "ConvertError"}
FallbackOutcomes == {"ok", "ImportError", "DecodeError", "SaveError"}

\* out_pdf after open(out_pdf, "wb") and nothing written, and after a save that broke.
EmptyPdf == [state |-> "empty", pages |-> << >>]
PartialPdf == [state |-> "partial", pages |-> << >>]

\* assemble_pdf(images, out_pdf), lines 271-298, when the two strategies meet the outcomes
\* primary and fallback and out_pdf is before: img2pdf first, any exception of it
\* swallowed, then Pillow, any exception of it turned into the RuntimeError with the
\* installation advice. out_pdf is created or emptied by the open() of line 275 before
\* the conversion runs, and written by the save of line 289. tried tells whether the
\* fallback was run.
assemble_pdf(primary, fallback, imgs, before) ==
    LET afterPrimary == IF primary = "ConvertError" THEN EmptyPdf ELSE before
    IN  IF primary = "ok"
        THEN [raised |-> None, tried |-> FALSE, pdf |-> Document(imgs)]
        ELSE IF fallback = "ok"
        THEN [raised |-> None, tried |-> TRUE, pdf |-> Document(imgs)]
        ELSE [raised |-> "RuntimeError: assemble", tried |-> TRUE,
              pdf |-> IF fallback = "SaveError" THEN PartialPdf ELSE afterPrimary]

\* Line 426: main() calls assemble_pdf and does not catch what it raises.
AssemblePdf ==
    /\ pc = "assemble_pdf"
    /\ \E primary \in PrimaryOutcomes, fallback \in FallbackOutcomes :
          LET out == assemble_pdf(primary, fallback, images, pdf)
          IN  /\ pdf' = out.pdf
              /\ pc' = IF out.raised = None THEN "cleanup" ELSE "fatal"
              /\ err' = IF out.raised = None THEN err ELSE out.raised
    /\ UNCHANGED <<arg, ret, gm, canvases, workers, files, parts, jobs, js, wjob, tls, run,
                   images, workdir>>

-----------------------------------------------------------------------------
(* Safe cleanup, gallica.py lines 304-332 and 429-441                      *)

\* A path is absolute or relative and has components; a directory is the sequence of the
\* components from the root. The component "lnk" is a symbolic link to the directory
\* target, ".." the parent.
Root == << >>

PathStep(stack, c, target) ==
    IF c = ".." THEN (IF stack = << >> THEN << >> ELSE SubSeq(stack, 1, Len(stack) - 1))
    ELSE IF c = "lnk" THEN target
    ELSE Append(stack, c)

RECURSIVE Walk(_, _, _)
Walk(stack, comps, target) ==
    IF comps = << >> THEN stack
    ELSE Walk(PathStep(stack, Head(comps), target), Tail(comps), target)

\* Path.resolve(): relative paths start at the current directory, links are followed and
\* ".." removed.
Resolve(path, cwd, target) ==
    Walk(IF path.abs THEN Root ELSE cwd, path.parts, target)

\* Path.name: the last component, empty for the root.
PathName(dir) == IF dir = << >> THEN "" ELSE dir[Len(dir)]

\* A cleaner that forgets the home directory among the forbidden ones.
safe_rmtree_home_allowed(a) ==
    LET wd == Resolve(a.workdir, a.cwd, a.target)
    IN  IF wd \in {Root, a.cwd} THEN [result |-> "False", deleted |-> "nothing"]
        ELSE IF PathName(wd) # "gallica_" \o a.ark
        THEN [result |-> "False", deleted |-> "nothing"]
        ELSE IF a.rmtree_ok THEN [result |-> "True", deleted |-> "all"]
        ELSE [result |-> "raised", deleted |-> "some"]

\* safe_rmtree(workdir, ark), lines 304-332: a holds the two arguments and what the call
\* reads of its environment (current directory, home, the link, whether rmtree succeeds).
safe_rmtree(a) ==
    LET wd == Resolve(a.workdir, a.cwd, a.target)
        forbidden == {Root, a.home, a.cwd}
    IN  IF wd \in forbidden THEN [result |-> "False", deleted |-> "nothing"]
        ELSE IF PathName(wd) # "gallica_" \o a.ark
        THEN [result |-> "False", deleted |-> "nothing"]
        ELSE IF a.rmtree_ok THEN [result |-> "True", deleted |-> "all"]
        ELSE [result |-> "raised", deleted |-> "some"]

\* The components of the paths of the check, and their longest length.
Components == {"home", "u", "gallica_a", "gallica_b", "lnk", ".."}
MaxDepth == 2

RECURSIVE PathsUpTo(_)
PathsUpTo(n) ==
    IF n = 0 THEN {<< >>}
    ELSE LET shorter == PathsUpTo(n - 1)
         IN  shorter \cup {Append(q, c) : q \in shorter, c \in Components}

RmArgs ==
    [workdir   : [abs : BOOLEAN, parts : PathsUpTo(MaxDepth)],
     ark       : {"a", "b"},
     cwd       : {Root, <<"home", "u">>, <<"home", "u", "gallica_a">>},
     home      : {<<"home", "u">>, <<"home", "gallica_a">>},
     target    : {<<"home", "u">>, <<"home", "u", "gallica_b">>},
     rmtree_ok : BOOLEAN]

\* What main() hands to safe_rmtree: the default folder gallica_<ark> under the current
\* directory, or the folder given with --dir.
MainRmArgs ==
    {a \in RmArgs :
        /\ a.ark = "a" /\ ~a.workdir.abs /\ a.home = <<"home", "u">>
        /\ a.target = <<"home", "u">>
        /\ a.workdir.parts \in {<<"gallica_a">>, <<"gallica_b">>, <<"lnk">>, <<"..">>}}

\* A main() that cleans up whatever --keep says.
KeptIgnoringFlag(keep) == FALSE

\* Line 430: with --keep the work folder is left alone.
Kept(keep) == keep

\* The work folder after a deletion that removed all of it, or that stopped part way.
Deleted(upto) == [i \in 1..canvases |-> IF i <= upto THEN NoFile ELSE files[i]]

\* Lines 429-441: the cleanup, unless --keep; an exception of safe_rmtree is only printed
\* and main() returns. ret keeps the flag, what safe_rmtree was called with and its
\* outcome.
Cleanup ==
    /\ pc = "cleanup"
    /\ \E keep \in BOOLEAN, a \in MainRmArgs :
          LET out == IF Kept(keep) THEN [result |-> "not called", deleted |-> "nothing"]
                     ELSE safe_rmtree(a)
          IN  /\ workdir' = (out.deleted = "nothing")
              /\ files' = IF out.deleted = "nothing" THEN files ELSE Deleted(canvases)
              /\ parts' = IF out.deleted = "nothing" THEN parts
                          ELSE [i \in 1..canvases |-> "absent"]
              /\ ret' = <<[keep |-> keep, a |-> a, result |-> out.result]>>
    /\ pc' = "done"
    /\ UNCHANGED <<arg, err, gm, canvases, workers, jobs, js, wjob, tls, run, images, pdf>>

-----------------------------------------------------------------------------
(* The interrupt, gallica.py lines 444-449                                 *)

\* The places of main() where it still runs.
Running == {"warmup", "get_manifest", "iter_canvases", "build_jobs", "parallel_download",
            "as_completed", "check_missing", "assemble_pdf", "cleanup"}

\* KeyboardInterrupt is raised in the main thread. Inside the with block of
\* parallel_download it first meets the __exit__ of the executor, shutdown(wait=True),
\* which joins the worker threads; anywhere else it reaches line 447 at once.
Interrupt ==
    /\ pc \in Running
    /\ pc' = IF pc = "as_completed" THEN "shutdown" ELSE "interrupted"
    /\ err' = "KeyboardInterrupt"
    /\ UNCHANGED <<arg, ret, gm, canvases, workers, files, parts, jobs, js, wjob, tls, run,
                   images, pdf, workdir>>

\* KeyboardInterrupt arrives while shutil.rmtree (line 331) is removing the work folder:
\* it is no Exception, so the except of line 438 lets it pass to line 447, and the part
\* of the folder that was not yet removed stays.
InterruptRmtree ==
    /\ pc = "cleanup"
    /\ \E keep \in BOOLEAN, a \in MainRmArgs, upto \in 0..(canvases - 1) :
          /\ ~Kept(keep)
          /\ safe_rmtree(a).deleted # "nothing"
          /\ workdir' = FALSE
          /\ files' = Deleted(upto)
          /\ ret' = <<[keep |-> keep, a |-> a, result |-> "interrupted"]>>
    /\ pc' = "interrupted"
    /\ err' = "KeyboardInterrupt"
    /\ UNCHANGED <<arg, gm, canvases, workers, parts, jobs, js, wjob, tls, run, images, pdf>>

\* The worker threads have run every work item: the with block is left, the interrupt
\* reaches line 447.
ShutdownDone ==
    /\ pc = "shutdown"
    /\ AllResolved
    /\ pc' = "interrupted"
    /\ UNCHANGED <<arg, ret, err, gm, canvases, workers, files, parts, jobs, js, wjob, tls,
                   run, images, pdf, workdir>>

\* Lines 444-449: the exit status of the process; -1 while it runs. An exception that
\* main() does not catch ends the interpreter with status 1.
ExitStatus ==
    CASE pc = "done" -> 0
      [] pc = "fatal" -> 1
      [] pc = "interrupted" -> 130
      [] OTHER -> -1

-----------------------------------------------------------------------------
(* Specifications                                                          *)

Next ==
    \/ MainWarmup
    \/ ManifestDirect
    \/ ManifestRound
    \/ ManifestScrape
    \/ IterCanvases
    \/ BuildJobs
    \/ StartPool
    \/ \E w \in 1..workers : TakeJob(w)
    \/ \E w \in 1..workers : Request(w)
    \/ \E w \in 1..workers : Wake(w)
    \/ \E w \in 1..workers : Stream(w)
    \/ JoinPool
    \/ CheckMissing
    \/ AssemblePdf
    \/ Cleanup
    \/ Interrupt
    \/ InterruptRmtree
    \/ ShutdownDone

\* One run of main().
Spec == Init /\ [][Next]_vars

\* ark_from_url on its own, over the locators of the check.
InitArk ==
    /\ arg \in Locators(MaxChunks)
    /\ ret = << >>
    /\ Parked("ark_from_url")

CallArkFromUrl ==
    /\ pc = "ark_from_url"
    /\ ret = << >>
    /\ ret' = <<ark_from_url(arg)>>
    /\ UNCHANGED <<arg, pc, err, gm, canvases, workers, files, parts, jobs, js, wjob, tls,
                   run, images, pdf, workdir>>

NextArk == CallArkFromUrl

SpecArk == InitArk /\ [][NextArk]_vars

\* get_manifest on its own: one call of the resolver on the master session.
InitManifest ==
    /\ arg = << >>
    /\ ret = << >>
    /\ pc = "get_manifest"
    /\ err = None
    /\ gm = [GmIdle EXCEPT !.pos = "direct"]
    /\ canvases = 0
    /\ workers = 1
    /\ files = << >>
    /\ parts = << >>
    /\ jobs = << >>
    /\ js = << >>
    /\ wjob = [w \in 1..1 |-> 0]
    /\ tls = [w \in 1..1 |-> 0]
    /\ run = 0
    /\ images = << >>
    /\ pdf = NoPdf
    /\ workdir = TRUE

NextManifest ==
    \/ ManifestDirect
    \/ ManifestRound
    \/ ManifestScrape

SpecManifest == InitManifest /\ [][NextManifest]_vars

\* download_with_backoff on its own: one call, run by one worker thread, for the page of
\* a one-page document, on each work folder an earlier run can have left.
InitJob ==
    /\ arg = << >>
    /\ ret = << >>
    /\ pc = "as_completed"
    /\ err = None
    /\ gm = GmIdle
    /\ canvases = 1
    /\ workers = 1
    /\ files \in Workspaces(1)
    /\ parts = [i \in 1..1 |-> "absent"]
    /\ jobs = <<Job(1, 1)>>
    /\ js = <<Queued>>
    /\ wjob = [w \in 1..1 |-> 0]
    /\ tls = [w \in 1..1 |-> 0]
    /\ run = 1
    /\ images = << >>
    /\ pdf = NoPdf
    /\ workdir = TRUE

NextJob ==
    \/ TakeJob(1)
    \/ Request(1)
    \/ Wake(1)
    \/ Stream(1)

SpecJob == InitJob /\ [][NextJob]_vars

\* The download engine on its own: parallel_download called on a work folder with a list
\* of jobs, and called again with the same list once a call in which every job got its
\* image has returned. ret keeps the files the first call left.
JobLists(n) ==
    {BuildFromSet(1, n, pages) : pages \in SUBSET (1..n) \ {{}}}

InitEngine ==
    /\ arg = << >>
    /\ ret = << >>
    /\ pc = "parallel_download"
    /\ err = None
    /\ gm = GmIdle
    /\ canvases \in 1..MaxCanvases
    /\ workers \in 1..MaxWorkers
    /\ files \in Workspaces(canvases)
    /\ parts = [i \in 1..canvases |-> "absent"]
    /\ jobs \in JobLists(canvases)
    /\ js = << >>
    /\ wjob = [w \in 1..workers |-> 0]
    /\ tls = [w \in 1..workers |-> 0]
    /\ run = 0
    /\ images = << >>
    /\ pdf = NoPdf
    /\ workdir = TRUE

\* The caller has the engine back and calls it a second time with the same jobs.
CallAgain ==
    /\ pc = "check_missing"
    /\ run = 1
    /\ \A j \in 1..Len(js) : js[j].st = "ok"
    /\ pc' = "parallel_download"
    /\ ret' = <<files>>
    /\ UNCHANGED <<arg, err, gm, canvases, workers, files, parts, jobs, js, wjob, tls, run,
                   images, pdf, workdir>>

NextEngine ==
    \/ StartPool
    \/ \E w \in 1..workers : TakeJob(w)
    \/ \E w \in 1..workers : Request(w)
    \/ \E w \in 1..workers : Wake(w)
    \/ \E w \in 1..workers : Stream(w)
    \/ JoinPool
    \/ CallAgain

SpecEngine == InitEngine /\ [][NextEngine]_vars

\* What one worker thread of the pool can do next.
WorkerStep(w) ==
    \/ TakeJob(w)
    \/ Request(w)
    \/ Wake(w)
    \/ Stream(w)

\* parallel_download with its scheduling: one call of the engine, the interrupt included.
NextPool ==
    \/ StartPool
    \/ \E w \in 1..workers : WorkerStep(w)
    \/ JoinPool
    \/ Interrupt
    \/ ShutdownDone

\* The threads of the executor are scheduled fairly: a request ends (with a response, or
\* with the exception of the timeout of line 228), a sleep of at most 12 seconds ends, a
\* transfer ends or breaks; and main() goes on to submit the jobs unless it is interrupted.
PoolFairness ==
    /\ \A w \in 1..MaxWorkers : WF_vars(w <= workers /\ WorkerStep(w))
    /\ WF_vars(StartPool)

SpecPool == InitEngine /\ [][NextPool]_vars /\ PoolFairness

\* canvas_image_service_id and iiif_jpg_url on their own, as lines 410-411 call them, over
\* the canvases of the check. ret gets the outcome of the first and, when it returned,
\* the outcome of the second on its value.
InitSvc ==
    /\ arg \in Canvases
    /\ ret = << >>
    /\ Parked("canvas_image_service_id")

CallCanvasImageServiceId ==
    /\ pc = "canvas_image_service_id"
    /\ ret = << >>
    /\ LET sid == canvas_image_service_id(arg)
       IN  ret' = IF sid.kind = "return" THEN <<sid, iiif_jpg_url(sid.val)>> ELSE <<sid>>
    /\ UNCHANGED <<arg, pc, err, gm, canvases, workers, files, parts, jobs, js, wjob, tls,
                   run, images, pdf, workdir>>

NextSvc == CallCanvasImageServiceId

SpecSvc == InitSvc /\ [][NextSvc]_vars

\* assemble_pdf on its own: called on the complete pages of a document, with an out_pdf
\* that does not exist or holds the document of an earlier run, for each outcome the two
\* strategies can meet.
OldPdf(n) == [state |-> "complete", pages |-> [i \in 1..n |-> i]]

InitAssemble ==
    /\ arg \in [primary : PrimaryOutcomes, fallback : FallbackOutcomes]
    /\ ret = << >>
    /\ pc = "assemble_pdf"
    /\ err = None
    /\ gm = GmIdle
    /\ canvases \in 1..MaxCanvases
    /\ workers = 1
    /\ files = [i \in 1..canvases |-> PriorFile(i, MinSize + 1)]
    /\ parts = [i \in 1..canvases |-> "absent"]
    /\ jobs = << >>
    /\ js = << >>
    /\ wjob = [w \in 1..1 |-> 0]
    /\ tls = [w \in 1..1 |-> 0]
    /\ run = 0
    /\ images = ImageList(canvases)
    /\ pdf \in {NoPdf, OldPdf(canvases)}
    /\ workdir = TRUE

CallAssemblePdf ==
    /\ pc = "assemble_pdf"
    /\ ret = << >>
    /\ LET out == assemble_pdf(arg.primary, arg.fallback, images, pdf)
       IN  /\ ret' = <<[raised |-> out.raised, tried |-> out.tried, before |-> pdf]>>
           /\ pdf' = out.pdf
           /\ pc' = IF out.raised = None THEN "cleanup" ELSE "fatal"
           /\ err' = IF out.raised = None THEN err ELSE out.raised
    /\ UNCHANGED <<arg, gm, canvases, workers, files, parts, jobs, js, wjob, tls, run,
                   images, workdir>>

NextAssemble == CallAssemblePdf

SpecAssemble == InitAssemble /\ [][NextAssemble]_vars

\* safe_rmtree on its own, over the paths of the check.
InitRm ==
    /\ arg \in RmArgs
    /\ ret = << >>
    /\ Parked("safe_rmtree")

CallSafeRmtree ==
    /\ pc = "safe_rmtree"
    /\ ret = << >>
    /\ ret' = <<safe_rmtree(arg)>>
    /\ workdir' = (safe_rmtree(arg).deleted = "nothing")
    /\ UNCHANGED <<arg, pc, err, gm, canvases, workers, files, parts, jobs, js, wjob, tls,
                   run, images, pdf>>

NextRm == CallSafeRmtree

SpecRm == InitRm /\ [][NextRm]_vars

-----------------------------------------------------------------------------
(* Claims                                                                  *)

\* The text /ark:/12148/ stands in s at position i, in lower case only.
LiteralAt(s, i) ==
    /\ i + Len(ArkPrefix) - 1 <= Len(s)
    /\ SubSeq(s, i, i + Len(ArkPrefix) - 1) = ArkPrefix

\* The text /ark:/12148/ stands in s at position i, each letter in either case.
LiteralAnyCaseAt(s, i) ==
    /\ i + Len(ArkPrefix) - 1 <= Len(s)
    /\ \A k \in 1..Len(ArkPrefix) : s[i + k - 1] \in {ArkPrefix[k], ArkPrefixUpper[k]}

\* s[i..j] is a token: not empty, free of '/', '?', '#', and followed by one of them or by the end.
TokenSpan(s, i, j) ==
    /\ i <= j
    /\ j <= Len(s)
    /\ \A k \in i..j : s[k] \notin Boundary
    /\ j = Len(s) \/ s[j + 1] \in Boundary

\* t is raw without the whitespace around it.
IsTrimOf(t, raw) ==
    \E a, b \in 0..Len(raw) :
        /\ a + b <= Len(raw)
        /\ t = SubSeq(raw, a + 1, Len(raw) - b)
        /\ \A k \in 1..a : raw[k] \in Whitespace
        /\ \A k \in (Len(raw) - b + 1)..Len(raw) : raw[k] \in Whitespace
        /\ t # << >> => (t[1] \notin Whitespace /\ t[Len(t)] \notin Whitespace)

\* The positions of s where the pattern /ark:/12148/<token> of the claim stands (lower case).
PatternPlaces(s) ==
    {i \in 1..Len(s) : LiteralAt(s, i) /\ \E j \in 1..Len(s) : TokenSpan(s, i + Len(ArkPrefix), j)}

\* The same, the letters of ark in either case.
PatternPlacesAnyCase(s) ==
    {i \in 1..Len(s) : LiteralAnyCaseAt(s, i) /\ \E j \in 1..Len(s) : TokenSpan(s, i + Len(ArkPrefix), j)}

\* r is the trimmed token of the first of the places.
IsFirstToken(r, s, places) ==
    \E i \in places :
        /\ \A k \in places : i <= k
        /\ \E j \in 1..Len(s) :
              /\ TokenSpan(s, i + Len(ArkPrefix), j)
              /\ IsTrimOf(r, SubSeq(s, i + Len(ArkPrefix), j))

\* C1 as stated: for every job that ends in failure, the run ends with a fatal error and
\* a nonzero exit, assemble_pdf is not invoked and no output file is produced, whatever
\* the work folder held before.
C1_FailureIsFatal ==
    (\E j \in 1..Len(js) : js[j].st = "failed") =>
        /\ pc \notin {"assemble_pdf", "cleanup", "done"}
        /\ images = << >>
        /\ pdf.state = "absent"

\* C2: a download attempts at most MAX_TRIES requests; the error of exhaustion comes after
\* exactly 8 requests; the sleep after attempt n is min(0.6 * 2^(n-1) + jitter, 12.0)
\* seconds with a jitter in [0, 0.35), so at most 12 seconds; and an HTTP error never
\* carries a retryable status.
C2_RetryBound ==
    \A j \in 1..Len(js) :
        /\ js[j].reqs <= 8
        /\ js[j].st = "get" => js[j].reqs = js[j].attempt - 1
        /\ js[j].st = "sleep" =>
              /\ js[j].reqs = js[j].attempt
              /\ js[j].wait <= 12000
              /\ \E jitter \in 0..349 :
                    js[j].wait = Min(600 * (2 ^ (js[j].attempt - 1)) + jitter, 12000)
        /\ (js[j].st = "failed" /\ js[j].err = "RuntimeError: attempts") => js[j].reqs = 8
        /\ (js[j].st = "failed" /\ js[j].reqs < 8) => js[j].err # "RuntimeError: attempts"
        /\ (js[j].st = "failed" /\ js[j].err = "HTTPError") =>
              (js[j].last >= 400 /\ js[j].last \notin {403, 429, 503})

\* C2 witness: a job that was answered by a retryable status eight times has failed with
\* the error of exhaustion.
C2_Witness ==
    \E j \in 1..Len(js) :
        /\ js[j].st = "failed"
        /\ js[j].err = "RuntimeError: attempts"
        /\ js[j].reqs = 8
        /\ js[j].last = 0

\* C3 as stated: after a first call in which every job got its image, the second call of
\* the engine with the same jobs issues no request, whatever the size of the bodies.
C3_AsStated ==
    run = 2 => \A j \in 1..Len(js) : js[j].reqs = 0

\* C3 (amended): after a first call in which every job got its image and every body was
\* larger than 50,000 bytes, the second call with the same jobs issues no request: every
\* job it has started was skipped.
C3_Idempotent ==
    (run = 2 /\ \A j \in 1..Len(jobs) : ret[1][jobs[j].out].size > 50000) =>
        \A j \in 1..Len(js) : js[j].reqs = 0 /\ js[j].st \in {"queued", "skipped"}

\* C3 witness: the second call has returned with both jobs skipped.
C3_Witness ==
    /\ run = 2
    /\ pc = "check_missing"
    /\ Len(js) = 2
    /\ \A j \in 1..Len(js) : js[j].st = "skipped"

\* C4: when assemble_pdf is invoked its images are page 1 .. page N in the order of the
\* canvases and page i holds the image of canvas i; the document it writes has the pages
\* in that order.
C4_PageOrder ==
    /\ pc = "assemble_pdf" =>
          /\ Len(images) = canvases
          /\ \A i \in 1..canvases :
                images[i] = i /\ files[i].exists /\ files[i].canvas = i
    /\ pdf.state = "complete" => pdf.pages = [i \in 1..canvases |-> i]

\* C4 witness: assembly starts on two pages, the first cached by an earlier run and the
\* second downloaded by this one.
C4_Witness ==
    /\ pc = "assemble_pdf"
    /\ canvases = 2
    /\ workers = 2
    /\ ~files[1].fresh
    /\ files[2].fresh

\* The statuses of the direct fetch that are HTTP errors other than 403.
OtherHttpErrors == {404, 429, 500, 503}

\* The requests of the log that belong to strategy n.
OfStrategy(n) == {k \in 1..Len(gm.log) : gm.log[k].s = n}

\* The rounds of strategy n that the log shows.
RoundsOf(n) == {gm.log[k].n : k \in OfStrategy(n)}

RmResolved == Resolve(arg.workdir, arg.cwd, arg.target)

\* The guards of the cleaner as the claim states them.
RmGuardsPass ==
    /\ RmResolved # << >>
    /\ RmResolved # arg.home
    /\ RmResolved # arg.cwd
    /\ RmResolved[Len(RmResolved)] = "gallica_" \o arg.ark

\* C6: safe_rmtree deletes only a directory whose resolved path is neither the root, the
\* home directory nor the current directory and whose name is gallica_<ark>; in every
\* other case it deletes nothing, leaves the folder and returns False without raising.
C6_CleanerSafety ==
    (pc = "safe_rmtree" /\ ret # << >>) =>
        /\ ret[1].deleted # "nothing" => RmGuardsPass
        /\ ~RmGuardsPass => (ret[1].deleted = "nothing" /\ ret[1].result = "False" /\ workdir)

\* C6 witness: the path given resolves, through a link or "..", to the home directory
\* whose name is the expected one, and the call refused.
C6_Witness ==
    /\ pc = "safe_rmtree"
    /\ ret # << >>
    /\ RmResolved = arg.home
    /\ PathName(arg.home) = "gallica_" \o arg.ark
    /\ ret[1].result = "False"
    /\ workdir

\* C7 as stated: once the interrupt has arrived during parallel_download, no queued job
\* is started and no further image request is issued.
C7_AbortsAtOnce ==
    [][pc = "shutdown" =>
          \A j \in 1..Len(js) :
              /\ js[j].st = "queued" => js'[j].st = "queued"
              /\ js'[j].reqs = js[j].reqs]_vars

\* C8: with one worker and a work folder that held no page, no two downloads are in
\* progress together, there is one job per canvas, and when every job got 200 at its first
\* attempt each job has issued exactly one request, N in all, and every page file exists.
C8_SingleWorker ==
    (workers = 1 /\ \A i \in 1..canvases : files[i].exists => files[i].fresh) =>
        /\ Cardinality({j \in 1..Len(js) : InProgress(j)}) <= 1
        /\ (pc \in {"parallel_download", "as_completed"}) =>
              (Len(jobs) = canvases /\ \A j \in 1..Len(jobs) : jobs[j] = [url |-> j, out |-> j])
        /\ (pc = "check_missing" /\ js # << >>
              /\ \A j \in 1..Len(js) : js[j].st = "ok" /\ js[j].attempt = 1) =>
              /\ \A j \in 1..Len(js) : js[j].reqs = 1
              /\ Len(js) = canvases
              /\ \A i \in 1..canvases : files[i].exists /\ files[i].canvas = i

\* C8 witness: one worker has downloaded both pages of an empty work folder, each with a
\* single request.
C8_Witness ==
    /\ workers = 1
    /\ canvases = 2
    /\ pc = "check_missing"
    /\ Len(js) = 2
    /\ \A j \in 1..Len(js) : js[j].st = "ok" /\ js[j].reqs = 1
    /\ \A i \in 1..canvases : files[i].fresh

\* C9 as stated: a locator that contains /ark:/12148/<token> followed by '/', '?', '#' or
\* the end gives the trimmed token, and every locator without that pattern gives the parse
\* error. It fails: the expression ignores case, so /ARK:/12148/x gives x and no error.
C9_AsStated ==
    ret # << >> =>
        /\ PatternPlaces(arg) # {} =>
              (ret[1].err = None /\ IsFirstToken(ret[1].val, arg, PatternPlaces(arg)))
        /\ PatternPlaces(arg) = {} => ret[1].err = "ValueError"

\* C9 (amended): a locator that contains /ark:/12148/<token>, the letters of ark in either
\* case, followed by '/', '?', '#' or the end, gives the token of the first such place
\* without the whitespace around it; a locator without the pattern in any case gives the
\* parse error and no identifier.
C9_ArkExtraction ==
    ret # << >> =>
        /\ PatternPlacesAnyCase(arg) # {} =>
              (ret[1].err = None /\ IsFirstToken(ret[1].val, arg, PatternPlacesAnyCase(arg)))
        /\ PatternPlacesAnyCase(arg) = {} => (ret[1].err = "ValueError" /\ ret[1].val = << >>)

\* C9 witness: a locator whose token carries whitespace was resolved to the bare token.
C9_Witness ==
    /\ ret # << >>
    /\ ret[1].err = None
    /\ ret[1].val = <<"x">>
    /\ \E i \in 1..Len(arg) : arg[i] \in Whitespace

\* C10: after a 403 of the direct fetch the resolver is in strategy 2 or beyond; after any
\* other HTTP error status of the direct fetch it has raised that error, the run is over
\* and the direct fetch is the only request the resolver issued.
C10_DirectFetch ==
    /\ gm.direct = 403 =>
          /\ gm.pos \in {"round", "scrape", "returned", "raised"}
          /\ gm.pos = "returned" => gm.via \in {2, 3}
          /\ gm.pos = "raised" => (err = "RuntimeError: manifest" /\ Len(gm.log) > 1)
    /\ gm.direct \in OtherHttpErrors =>
          /\ gm.pos = "raised"
          /\ pc = "fatal"
          /\ err = "HTTPError"
          /\ gm.log = <<[s |-> 1, n |-> 1, what |-> "manifest"]>>
    /\ gm.pos \in {"round", "scrape"} => gm.direct = 403

\* C10 witness: the direct fetch answered 404 and the run ended on that error.
C10_Witness ==
    /\ gm.direct = 404
    /\ pc = "fatal"
    /\ err = "HTTPError"

\* The manifest fetches that round r of strategy 2 issued.
ManifestFetchesOf(r) ==
    {k \in OfStrategy(2) : gm.log[k].n = r /\ gm.log[k].what = "manifest"}

\* C11 as stated: every round of strategy 2 that was entered issued exactly one fetch of
\* the manifest, whether or not its warm-up succeeded.
C11_AsStated ==
    \A r \in RoundsOf(2) : Cardinality(ManifestFetchesOf(r)) = 1

\* The statuses of the check that are neither 2xx nor retryable.
NonRetryable == {304, 404, 500}

\* C12 as stated: a job whose request was answered by a status that is neither 2xx nor
\* one of 403, 429, 503 has failed with the HTTP error after that request, with no further
\* attempt.
C12_AsStated ==
    \A j \in 1..Len(js) :
        js[j].last \in NonRetryable => (js[j].st = "failed" /\ js[j].err = "HTTPError")

\* C13 as stated: no page file of 50,000 bytes or less left by an earlier run is among the
\* images handed to assemble_pdf, whatever became of the job that fetched it again.
C13_AsStated ==
    pc = "assemble_pdf" =>
        \A k \in 1..Len(images) :
            ~(~files[images[k]].fresh /\ files[images[k]].size <= 50000)

\* Page i got its file by the rename of line 236: the job of that page was streaming, its
\* .part file held the body, and the step ended the job with the whole body at the
\* destination and the .part file gone.
Renamed(i) ==
    \E j \in 1..Len(js) :
        /\ jobs[j].out = i
        /\ js[j].st = "stream"
        /\ js'[j].st = "ok"
        /\ parts[i] = "partial"
        /\ parts'[i] = "absent"
        /\ files'[i].exists
        /\ files'[i].size \in Sizes
        /\ files'[i].canvas = jobs[j].url

\* C14: a page file changes only by the rename that ends a download whose body was
\* streamed whole to the .part file (or by the cleanup after the document is written);
\* requests, broken transfers, failures and the interrupt leave it alone, so while a job
\* has not succeeded its destination is what the earlier run left.
C14_AtomicWrites ==
    /\ [](\A j \in 1..Len(js) : js[j].st # "ok" => ~files[jobs[j].out].fresh)
    /\ [][\A i \in 1..canvases :
             files'[i] # files[i] => (Renamed(i) \/ pc = "cleanup")]_vars

\* C14 witness: the run was interrupted, a transfer broke in mid-stream, its .part file
\* holds the partial body and the destination is still the file of the earlier run.
C14_Witness ==
    /\ pc = "interrupted"
    /\ \E j \in 1..Len(js) :
          /\ js[j].st = "failed"
          /\ js[j].last = 200
          /\ parts[jobs[j].out] = "partial"
          /\ files[jobs[j].out] = PriorFile(jobs[j].out, MinSize)

\* The places of main() from the missing-file check on.
AfterPool == {"check_missing", "assemble_pdf", "cleanup", "done"}

\* C15: while main() is at the missing-file check, in assemble_pdf or beyond, every job
\* that was submitted has ended, with its image, skipped or failed; none is queued,
\* requesting, backing off or writing, and no worker thread holds a job.
C15_BlockingJoin ==
    pc \in AfterPool =>
        /\ \A j \in 1..Len(js) : js[j].st \in {"ok", "skipped", "failed"}
        /\ \A w \in 1..workers : wjob[w] = 0
        /\ run = 1 => Len(js) = Len(jobs)

\* C15 witness: assembly starts after two workers ran two jobs, one failed on a page the
\* earlier run had left cut short, the other got its image.
C15_Witness ==
    /\ pc = "assemble_pdf"
    /\ workers = 2
    /\ Len(js) = 2
    /\ \E j, k \in 1..Len(js) : js[j].st = "failed" /\ js[k].st = "ok"

\* The sessions the worker threads 1..w have made.
RECURSIVE SessionsMade(_)
SessionsMade(w) == IF w = 0 THEN 0 ELSE tls[w] + SessionsMade(w - 1)

C17_BoundedConcurrency ==
    /\ [](/\ Cardinality({j \in 1..Len(js) : js[j].st \in {"get", "sleep", "stream"}}) <= workers
          /\ \A j \in 1..Len(js) :
                js[j].st \in {"get", "sleep", "stream"} => \E w \in 1..workers : wjob[w] = j)
    /\ \A j \in 1..MaxCanvases :
          (j <= Len(js) /\ js[j].st = "queued")
              ~> (j <= Len(js) /\ js[j].st \in {"ok", "skipped", "failed"})

\* C17 witness: the one worker has run two jobs, the first failed and the second, picked
\* up after it, got its image.
C17_Witness ==
    /\ workers = 1
    /\ Len(js) = 2
    /\ js[1].st = "failed"
    /\ js[2].st = "ok"
    /\ pc = "check_missing"

\* The identifiers the claim lets the function return for canvas c: the one of the v2
\* service under '@id' or 'id', the one of the first v3 service under 'id' or '@id'.
ServiceIdsOf(c) ==
    (IF c.images = "ok" THEN {c.a_at, c.a_id} ELSE {})
        \cup (IF c.items = "ok" /\ c.svc = "list" THEN {c.b_id, c.b_at} ELSE {})

\* C18 as stated: the function returns an identifier of the canvas that is neither empty
\* nor absent, or it raises the error 'no image service found'; there is no other outcome.
C18_AsStated ==
    ret # << >> =>
        \/ /\ ret[1].kind = "return"
           /\ ret[1].val \in ServiceIdsOf(arg)
           /\ ret[1].val # None
           /\ ret[1].val # ""
        \/ /\ ret[1].kind = "raise"
           /\ ret[1].err = "RuntimeError: no image service"

\* C19 as stated: the fallback runs only when img2pdf cannot be imported; when it can, the
\* outcome of the conversion is the outcome of the call; the error with the installation
\* advice is raised only when neither img2pdf nor Pillow can be imported; and a call that
\* raises leaves no empty or partial file at out_pdf.
C19_AsStated ==
    ret # << >> =>
        /\ ret[1].tried => arg.primary = "ImportError"
        /\ (arg.primary \notin {"ok", "ImportError"}) => ret[1].raised # None
        /\ ret[1].raised # None =>
              /\ arg.primary = "ImportError"
              /\ arg.fallback = "ImportError"
              /\ pdf.state \notin {"empty", "partial"}

\* The guards of the cleaner on the call a, as the claim states them.
CleanerGuardsPass(a) ==
    LET wd == Resolve(a.workdir, a.cwd, a.target)
    IN  /\ wd # << >>
        /\ wd # a.home
        /\ wd # a.cwd
        /\ wd[Len(wd)] = "gallica_" \o a.ark

\* C20 as stated: a run that ends in a fatal error or in an interrupt has attempted no
\* deletion and its work folder is whole.
C20_AsStated ==
    pc \in {"fatal", "interrupted"} => workdir

\* C20 (amended): the work folder is touched only by the cleanup, after assemble_pdf has
\* written the document in this run, without --keep and when the guards of the cleaner
\* pass on the resolved path; a run that ends in a fatal error, or in an interrupt that
\* arrives before the deletion has begun, has attempted no deletion and keeps every page
\* file; an interrupt that arrives while the folder is being removed ends the run and
\* leaves the rest of the folder; an exception of the deletion is caught and the run ends
\* normally.
C20_WorkspacePreservation ==
    /\ [](~workdir =>
            /\ pdf.state = "complete"
            /\ ret # << >>
            /\ ~ret[1].keep
            /\ CleanerGuardsPass(ret[1].a)
            /\ ret[1].result \in {"True", "raised", "interrupted"})
    /\ [](pc = "fatal" => (workdir /\ ret = << >>))
    /\ []((pc = "interrupted" /\ ret = << >>) => workdir)
    /\ []((ret # << >> /\ ret[1].result \in {"True", "False", "raised", "not called"})
            => (pc = "done" /\ err = None))
    /\ []((ret # << >> /\ ret[1].result = "interrupted") => (pc = "interrupted" /\ ~workdir))
    /\ [][\A i \in 1..canvases :
             (files[i].exists /\ ~files'[i].exists) =>
                (pc = "cleanup" /\ pdf.state = "complete" /\ ~workdir')]_vars

\* C20 witness: the document was written, the deletion of the work folder raised part way
\* and the run still ended normally.
C20_Witness ==
    /\ pc = "done"
    /\ ret # << >>
    /\ ret[1].result = "raised"
    /\ ~workdir
    /\ pdf.state = "complete"

=============================================================================
